---- MODULE Spec2Model ----
(***************************************************************************)
(* A model of pyTempNet's HigherOrderNetwork (HigherOrderNetwork.py): the  *)
(* facade with its k-path cache, the sliding-window k-path extraction and  *)
(* the two k-th order graph builders.                                      *)
(*                                                                         *)
(* Weights are Python floats in the source; here they are exact rationals  *)
(* <<numerator, denominator>> in lowest terms.  A Python set is iterated   *)
(* in an order the program does not control, so the loop over              *)
(* candidate_nodes visits the remaining nodes in any order.                *)
(***************************************************************************)
EXTENDS Integers, Sequences, FiniteSets, TLC

\* ------------------------------------------------------------------ bounds

MaxTime  == 4
MaxEdges == 3
MaxOrder == 3
MaxDelta == 3

\* edges of the longer streams the SpecDeep specification extracts from
DeepEdges == 4

\* edges of the generated streams the facade specification Spec starts from
FacadeEdges == 1

\* edges of the streams the SpecAnchor specification starts from
AnchorEdges == 2

\* node identifiers of the generated streams, and of the fixture stream
NodeNames == <<"a", "b", "c">>
AllNodes  == {"a", "b", "c", "d"}

\* the value of a Python name that is not bound (a dead or unset local,
\* an attribute never assigned)
None == "None"

\* ------------------------------------------------------------- arithmetic

RECURSIVE GCD(_, _)
GCD(x, y) == IF y = 0 THEN x ELSE GCD(y, x % y)

\* a rational in lowest terms
Rat(n, d) == LET g == GCD(n, d) IN <<n \div g, d \div g>>

RatAdd(p, q) == Rat(p[1] * q[2] + q[1] * p[2], p[2] * q[2])

Zero == Rat(0, 1)
One  == Rat(1, 1)

Last(s) == s[Len(s)]

RECURSIVE Concat(_)
Concat(ss) == IF ss = <<>> THEN <<>> ELSE Head(ss) \o Concat(Tail(ss))

\* --------------------------------------------------- the temporal network
\* TemporalNetwork is the collaborator the extraction reads
\* (tmpNet.ordered_times, tmpNet.time, tmpNet.sources, tn.separator).  A
\* timed edge is <<source, target, timestamp>>.

separator == ","

TimedEdges == { NodeNames[i] : i \in 1 .. Len(NodeNames) }
                \X { NodeNames[i] : i \in 1 .. Len(NodeNames) } \X (1 .. MaxTime)

NameIndex(n) == CHOOSE i \in 1 .. Len(NodeNames) : NodeNames[i] = n

NodesOf(s) == { s[i][1] : i \in 1 .. Len(s) } \cup { s[i][2] : i \in 1 .. Len(s) }

\* The generated streams list their edges in time order and name their nodes
\* in the order of first appearance: the extraction reads the edges by
\* timestamp and compares node identifiers for equality only, so every edge
\* list is one of these up to the names of its nodes.
MayFollow(s, e) ==
    /\ s = <<>> \/ Last(s)[3] <= e[3]
    /\ NameIndex(e[1]) <= Cardinality(NodesOf(s)) + 1
    /\ NameIndex(e[2]) <= Cardinality(NodesOf(s) \cup {e[1]}) + 1

\* the edge lists of at most n timed edges
RECURSIVE StreamsUpTo(_)
StreamsUpTo(n) ==
    IF n = 0 THEN { <<>> }
    ELSE LET shorter == StreamsUpTo(n - 1)
             longest == { s \in shorter : Len(s) = n - 1 }
         IN  shorter \cup
             { Append(x[1], x[2]) :
               x \in { y \in longest \X TimedEdges : MayFollow(y[1], y[2]) } }

Streams == StreamsUpTo(MaxEdges)

\* the streams of exactly DeepEdges edges
DeepStreams == { s \in StreamsUpTo(DeepEdges) : Len(s) = DeepEdges }

\* timestamps {1,2,3}, edges (a,b)@1, (b,c)@2, (c,d)@3
Fixture == << <<"a", "b", 1>>, <<"b", "c", 2>>, <<"c", "d", 3>> >>

\* a stream whose paths recur from one anchor window to the next
Recurring == << <<"a", "b", 1>>, <<"b", "a", 2>>, <<"a", "b", 3>>, <<"b", "a", 4>> >>

\* the example streams Spec and SpecExtract start from, beside the generated
Examples == {Fixture, Recurring}

\* the stream s with its timestamps counted from an origin d later
Shift(s, d) == [i \in 1 .. Len(s) |-> <<s[i][1], s[i][2], s[i][3] - d>>]

\* the short streams whose first timestamps lie before the origin of time
EarlyStreams == { Shift(s, d) : s \in StreamsUpTo(AnchorEdges), d \in 0 .. MaxTime }

RECURSIVE SortedSeq(_)
SortedSeq(S) ==
    IF S = {} THEN <<>>
    ELSE LET m == CHOOSE x \in S : \A y \in S : x <= y
         IN  <<m>> \o SortedSeq(S \ {m})

\* the ascending, duplicate-free sequence of timestamps
ordered_times(tmpNet) == SortedSeq({ tmpNet[i][3] : i \in 1 .. Len(tmpNet) })

\* tmpNet.time[ts]: the edges active at ts (empty for an absent timestamp)
time(tmpNet, ts) == SelectSeq(tmpNet, LAMBDA e : e[3] = ts)

\* tmpNet.sources[ts].get(n, list()): the edges active at ts that leave n
sources(tmpNet, ts, n) == SelectSeq(tmpNet, LAMBDA e : e[3] = ts /\ e[1] = n)


\* ------------------------------------------------------------------ state

VARIABLES
    tn,                  \* self.tn: the temporal network (its timed edges)
    k,                   \* self.k
    delta,               \* self.delta
    kpaths,              \* self.kpaths: the cached k-paths
    kpcount,             \* self.kpcount: their count, -1 when not extracted
    gk,                  \* self.gk
    gn,                  \* self.gn: the graph igraphKthOrder built last
    gn0,                 \* self.gn0: the graph igraphKthOrderNull built last
    pc,                  \* "new", "idle", or the position inside __extract_k_paths
    call,                \* the call made last, <<method, arguments>> (running while pc is not idle)
    raised,              \* the exception the last call raised, None if it returned
    order,               \* __extract_k_paths: parameter order
    dt,                  \* __extract_k_paths: parameter dt
    kpathsLocal,         \* __extract_k_paths: the local list kpaths
    next_valid_t,        \* __extract_k_paths: the anchor cursor
    ti,                  \* __extract_k_paths: index of the timestamp loop
    t,                   \* __extract_k_paths: the timestamp the loop is at
    anchors,             \* the timestamps processed as anchors in this run
    possible_path,       \* __extract_k_paths: prefixes by terminal node
    candidate_nodes,     \* __extract_k_paths: terminals of the previous step
    current_k,           \* __extract_k_paths: the step
    todo,                \* candidate_nodes not yet visited in this step
    new_candidate_nodes, \* __extract_k_paths: terminals of this step
    node,                \* __extract_k_paths: the node visited last
    len_new_edges,       \* __extract_k_paths: len(new_edges) of that visit
    update               \* __extract_k_paths: the dict update of that visit

object == <<tn, k, delta, kpaths, kpcount, gk, gn, gn0>>
locals == <<order, dt, kpathsLocal, next_valid_t, ti, t, anchors, possible_path,
            candidate_nodes, current_k, todo, new_candidate_nodes, node,
            len_new_edges, update>>
window == <<possible_path, candidate_nodes, current_k, todo, new_candidate_nodes,
            node, len_new_edges, update>>
vars   == <<object, pc, call, raised, locals>>

\* the "not computed" sentinel of kpcount
NotComputed == -1

\* the default of the parameters maxTimeDiff, delta and k
DefaultMaxTimeDiff == 1
DefaultOrder == 1

NoGraph == [built |-> FALSE, vs |-> {}, es |-> <<>>]

NoPaths == [n \in AllNodes |-> <<>>]

\* the locals of __extract_k_paths are dead outside a run
NoLocals ==
    /\ order = 0 /\ dt = 0 /\ kpathsLocal = <<>> /\ next_valid_t = 0
    /\ ti = 0 /\ t = 0 /\ anchors = <<>>
    /\ possible_path = NoPaths /\ candidate_nodes = {} /\ current_k = 0
    /\ todo = {} /\ new_candidate_nodes = {} /\ node = None
    /\ len_new_edges = 0 /\ update = <<>>

InitWith(streams) ==
    /\ tn \in streams
    /\ k = 0 /\ delta = 0 /\ kpaths = <<>> /\ kpcount = NotComputed
    /\ gk = 0 /\ gn = NoGraph /\ gn0 = NoGraph
    /\ pc = "new" /\ call = <<None>> /\ raised = None
    /\ NoLocals

\* ------------------------------------------------------------- the facade

\* __init__(tempNet, order, maxTimeDiff): tempNet is tn
Construct(o, maxTimeDiff) ==
    /\ pc = "new"
    /\ call' = <<"__init__", o, maxTimeDiff>>
    /\ IF o < 1 \/ maxTimeDiff < 1
       THEN /\ raised' = "ValueError"
            /\ UNCHANGED <<object, pc, locals>>
       ELSE /\ k' = o
            /\ delta' = maxTimeDiff
            /\ kpaths' = <<>>
            /\ kpcount' = NotComputed
            /\ gk' = 0
            /\ pc' = "idle"
            /\ raised' = None
            /\ UNCHANGED <<tn, gn, gn0, locals>>

\* clearCache forgetting to reset the count
ClearedPathsOnly ==
    /\ kpaths' = <<>>
    /\ kpcount' = kpcount
    /\ gk' = 0

\* what clearCache assigns
Cleared ==
    /\ kpaths' = <<>>
    /\ kpcount' = NotComputed
    /\ gk' = 0

clearCache ==
    /\ pc = "idle"
    /\ call' = <<"clearCache">>
    /\ raised' = None
    /\ Cleared
    /\ UNCHANGED <<tn, k, delta, gn, gn0, pc, locals>>

\* the body of setMaxTimeDiff(d), called as `name`
SetMaxTimeDiffBody(d, name) ==
    /\ pc = "idle"
    /\ call' = <<name, d>>
    /\ IF d < 1
       THEN /\ raised' = "ValueError"
            /\ UNCHANGED <<object, pc, locals>>
       ELSE /\ raised' = None
            /\ IF d # delta
               THEN /\ delta' = d
                    /\ Cleared
                    /\ UNCHANGED <<tn, k, gn, gn0, pc, locals>>
               ELSE UNCHANGED <<object, pc, locals>>

setMaxTimeDiff(d) == SetMaxTimeDiffBody(d, "setMaxTimeDiff")

resetMaxTimeDiff == SetMaxTimeDiffBody(DefaultMaxTimeDiff, "resetMaxTimeDiff")

\* setOrder validating with k < 0 in place of k < 1
SetOrderBodyLax(o, name) ==
    /\ pc = "idle"
    /\ call' = <<name, o>>
    /\ IF o < 0
       THEN /\ raised' = "ValueError"
            /\ UNCHANGED <<object, pc, locals>>
       ELSE /\ raised' = None
            /\ IF o # k
               THEN /\ k' = o
                    /\ kpaths' = <<>>
                    /\ kpcount' = NotComputed
                    /\ gk' = 0
                    /\ UNCHANGED <<tn, delta, gn, gn0, pc, locals>>
               ELSE UNCHANGED <<object, pc, locals>>

\* the body of setOrder(o), called as `name`
SetOrderBody(o, name) ==
    /\ pc = "idle"
    /\ call' = <<name, o>>
    /\ IF o < 1
       THEN /\ raised' = "ValueError"
            /\ UNCHANGED <<object, pc, locals>>
       ELSE /\ raised' = None
            /\ IF o # k
               THEN /\ k' = o
                    /\ Cleared
                    /\ UNCHANGED <<tn, delta, gn, gn0, pc, locals>>
               ELSE UNCHANGED <<object, pc, locals>>

setOrder(o) == SetOrderBody(o, "setOrder")

resetOrder == SetOrderBody(DefaultOrder, "resetOrder")

\* KPathCount returns self.kpcount and assigns nothing
KPathCount ==
    /\ pc = "idle"
    /\ call' = <<"KPathCount">>
    /\ raised' = None
    /\ UNCHANGED <<object, pc, locals>>

\* ------------------------------------------------------ __extract_k_paths

\* update[key] = update.get(key, 0) + w, on a dict kept in insertion order
AddWeight(upd, key, w) ==
    IF \E i \in 1 .. Len(upd) : upd[i].nodes = key
    THEN [i \in 1 .. Len(upd) |->
            IF upd[i].nodes = key
            THEN [nodes |-> key, weight |-> RatAdd(upd[i].weight, w)]
            ELSE upd[i]]
    ELSE Append(upd, [nodes |-> key, weight |-> w])

\* current_edges: the edges active in [ts, ts + d)
CurrentEdges(tmpNet, ts, d) ==
    Concat([i \in 1 .. d |-> time(tmpNet, ts + (i - 1))])

\* the seeding loop without its test for self loops
RECURSIVE SeedPathsWithLoops(_, _)
SeedPathsWithLoops(st, edges) ==
    IF edges = <<>> THEN st
    ELSE LET e == Head(edges)
         IN  SeedPathsWithLoops(
                 [pp   |-> [st.pp EXCEPT ![e[2]] = Append(@, <<e[1], e[2]>>)],
                  cand |-> st.cand \cup {e[2]}],
                 Tail(edges))

\* the seeding loop over current_edges: st is [pp, cand]
RECURSIVE SeedPaths(_, _)
SeedPaths(st, edges) ==
    IF edges = <<>> THEN st
    ELSE LET e == Head(edges)
         IN  IF e[1] # e[2]
             THEN SeedPaths([pp   |-> [st.pp EXCEPT ![e[2]] = Append(@, <<e[1], e[2]>>)],
                             cand |-> st.cand \cup {e[2]}],
                            Tail(edges))
             ELSE SeedPaths(st, Tail(edges))

\* new_edges: the edges leaving n in [ts + ck, ts + ck + d)
NewEdges(tmpNet, ts, ck, d, n) ==
    Concat([i \in 1 .. d |-> sources(tmpNet, ts + ck + (i - 1), n)])

\* len(possible_path[src]): the prefixes of every length
CompetingAnyLength(pp, src, ord) == Len(pp[src])

\* len([i for i in possible_path[src] if len(i) == order])
Competing(pp, src, ord) ==
    Cardinality({ j \in 1 .. Len(pp[src]) : Len(pp[src][j]) = ord })

\* the loop `for path in possible_path[src]` for one edge e, from index i on;
\* st is [pp, newc, update], E is len_new_edges
RECURSIVE ExtendPaths(_, _, _, _, _, _)
ExtendPaths(st, e, i, E, ck, ord) ==
    LET src == e[1]
        dst == e[2]
    IN  IF i > Len(st.pp[src]) THEN st
        ELSE LET path == st.pp[src][i]
             IN  IF Len(path) > 0 /\ Last(path) = dst
                 THEN ExtendPaths(st, e, i + 1, E, ck, ord)
                 ELSE LET new_path == Append(path, dst)
                          pp2      == [st.pp EXCEPT ![dst] = Append(@, new_path)]
                          emit     == (ck + 1 = ord) /\ (Len(new_path) = ord + 1)
                          w        == Rat(1, E * Competing(pp2, src, ord))
                      IN  ExtendPaths(
                              [pp     |-> pp2,
                               newc   |-> st.newc \cup {dst},
                               update |-> IF emit THEN AddWeight(st.update, new_path, w)
                                                  ELSE st.update],
                              e, i + 1, E, ck, ord)

\* the loop `for e in new_edges`
RECURSIVE ExtendEdges(_, _, _, _, _)
ExtendEdges(st, edges, E, ck, ord) ==
    IF edges = <<>> THEN st
    ELSE ExtendEdges(ExtendPaths(st, Head(edges), 1, E, ck, ord), Tail(edges), E, ck, ord)

\* entering __extract_k_paths(self.tn, ord, d) from the method `name`
Enter(name, ord, d) ==
    /\ call' = <<name>>
    /\ raised' = None
    /\ pc' = "times"
    /\ order' = ord
    /\ dt' = d
    /\ kpathsLocal' = <<>>
    /\ next_valid_t' = 0
    /\ ti' = 1
    /\ UNCHANGED <<object, t, anchors, window>>

\* `for t in tmpNet.ordered_times: if t < next_valid_t: continue`
SkipTimestamp ==
    /\ pc = "times"
    /\ ti <= Len(ordered_times(tn))
    /\ ordered_times(tn)[ti] < next_valid_t
    /\ t' = ordered_times(tn)[ti]
    /\ ti' = ti + 1
    /\ UNCHANGED <<object, pc, call, raised, order, dt, kpathsLocal, next_valid_t,
                   anchors, window>>

\* an anchor: the window is opened and seeded (the case k == 0)
OpenWindow ==
    /\ pc = "times"
    /\ ti <= Len(ordered_times(tn))
    /\ ordered_times(tn)[ti] >= next_valid_t
    /\ LET ts   == ordered_times(tn)[ti]
           seed == SeedPaths([pp |-> NoPaths, cand |-> {}], CurrentEdges(tn, ts, dt))
       IN  /\ t' = ts
           /\ anchors' = Append(anchors, ts)
           /\ next_valid_t' = ts + dt
           /\ possible_path' = seed.pp
           /\ candidate_nodes' = seed.cand
           /\ new_candidate_nodes' = {}
           /\ node' = None
           /\ len_new_edges' = 0
           /\ update' = <<>>
           /\ IF 1 < order
              THEN \* range(1, order) starts at current_k = 1
                   /\ current_k' = 1
                   /\ todo' = seed.cand
                   /\ pc' = "nodes"
                   /\ ti' = ti
              ELSE \* range(1, order) is empty
                   /\ current_k' = 0
                   /\ todo' = {}
                   /\ pc' = "times"
                   /\ ti' = ti + 1
    /\ UNCHANGED <<object, call, raised, order, dt, kpathsLocal>>

\* one pass of `for node in candidate_nodes`, for any node not yet visited
VisitNode(n) ==
    /\ pc = "nodes"
    /\ n \in todo
    /\ LET new_edges == NewEdges(tn, t, current_k, dt, n)
           st == ExtendEdges([pp |-> possible_path, newc |-> new_candidate_nodes,
                              update |-> <<>>],
                             new_edges, Len(new_edges), current_k, order)
       IN  /\ node' = n
           /\ len_new_edges' = Len(new_edges)
           /\ possible_path' = st.pp
           /\ new_candidate_nodes' = st.newc
           /\ update' = st.update
           /\ kpathsLocal' = kpathsLocal \o st.update
    /\ todo' = todo \ {n}
    /\ UNCHANGED <<object, pc, call, raised, order, dt, next_valid_t, ti, t, anchors,
                   candidate_nodes, current_k>>

\* the end of a step: candidate_nodes = new_candidate_nodes, next current_k
NextStep ==
    /\ pc = "nodes"
    /\ todo = {}
    /\ candidate_nodes' = new_candidate_nodes
    /\ node' = None
    /\ len_new_edges' = 0
    /\ update' = <<>>
    /\ IF current_k + 1 < order
       THEN /\ current_k' = current_k + 1
            /\ todo' = new_candidate_nodes
            /\ new_candidate_nodes' = {}
            /\ UNCHANGED <<pc, ti>>
       ELSE /\ pc' = "times"
            /\ ti' = ti + 1
            /\ UNCHANGED <<current_k, todo, new_candidate_nodes>>
    /\ UNCHANGED <<object, call, raised, order, dt, kpathsLocal, next_valid_t, t,
                   anchors, possible_path>>

\* `return kpaths`: the timestamp loop is exhausted
Returning == pc = "times" /\ ti > Len(ordered_times(tn))

\* the locals die with the return
DropLocals ==
    /\ order' = 0 /\ dt' = 0 /\ kpathsLocal' = <<>> /\ next_valid_t' = 0
    /\ ti' = 0 /\ t' = 0 /\ anchors' = <<>>
    /\ possible_path' = NoPaths /\ candidate_nodes' = {} /\ current_k' = 0
    /\ todo' = {} /\ new_candidate_nodes' = {} /\ node' = None
    /\ len_new_edges' = 0 /\ update' = <<>>

\* ------------------------------------------------------ the graph builders

\* sep.join([str(n) for n in nodes]): node identifiers are strings already
RECURSIVE Join(_)
Join(nodes) ==
    IF nodes = <<>> THEN ""
    ELSE IF Len(nodes) = 1 THEN Head(nodes)
    ELSE Head(nodes) \o separator \o Join(Tail(nodes))

\* n1: the nodes at the positions i < kk (positions count from 0)
HeadKey(nodes, kk) == Join(SubSeq(nodes, 1, IF kk < Len(nodes) THEN kk ELSE Len(nodes)))

\* n2: the nodes at the positions i > 0
TailKey(nodes) == Join(Tail(nodes))

\* an edge list that takes every path as an edge of its own
AddEdgeNoMerge(edges, n1, n2, w) ==
    Append(edges, [source |-> n1, target |-> n2, weight |-> w])

\* edges[key] = edges.get(key, 0) + path['weight']
AddEdge(edges, n1, n2, w) ==
    IF \E i \in 1 .. Len(edges) : edges[i].source = n1 /\ edges[i].target = n2
    THEN [i \in 1 .. Len(edges) |->
            IF edges[i].source = n1 /\ edges[i].target = n2
            THEN [edges[i] EXCEPT !.weight = RatAdd(@, w)]
            ELSE edges[i]]
    ELSE Append(edges, [source |-> n1, target |-> n2, weight |-> w])

\* the loop over the paths: acc is [vertices, edges]
RECURSIVE FoldPaths(_, _, _)
FoldPaths(acc, paths, kk) ==
    IF paths = <<>> THEN acc
    ELSE LET path == Head(paths)
             n1   == HeadKey(path.nodes, kk)
             n2   == TailKey(path.nodes)
         IN  FoldPaths([vertices |-> acc.vertices \o <<n1, n2>>,
                        edges    |-> AddEdge(acc.edges, n1, n2, path.weight)],
                       Tail(paths), kk)

\* list(set(vertices)): each name once; the order is the set's, here the
\* order of first occurrence
RECURSIVE Distinct(_)
Distinct(names) ==
    IF names = <<>> THEN <<>>
    ELSE LET rest == Distinct(SubSeq(names, 1, Len(names) - 1))
             x    == Last(names)
         IN  IF \E i \in 1 .. Len(rest) : rest[i] = x THEN rest ELSE Append(rest, x)

\* the graph igraphKthOrder and igraphKthOrderNull build from a path list:
\* vs is vs['name'], es the edges with es['weight']
BuildGraph(paths, kk) ==
    LET acc == FoldPaths([vertices |-> <<>>, edges |-> <<>>], paths, kk)
    IN  [built |-> TRUE, vs |-> Distinct(acc.vertices), es |-> acc.edges]

\* ------------------------------------------- the methods that need k-paths

extractKPaths ==
    /\ pc = "idle"
    /\ Enter("extractKPaths", k, delta)

ReturnExtractKPaths ==
    /\ Returning
    /\ Head(call) = "extractKPaths"
    /\ kpaths' = kpathsLocal
    /\ kpcount' = Len(kpathsLocal)
    /\ pc' = "idle"
    /\ DropLocals
    /\ UNCHANGED <<tn, k, delta, gk, gn, gn0, call, raised>>

igraphKthOrder ==
    /\ pc = "idle"
    /\ IF ~(k > 1)
       THEN /\ call' = <<"igraphKthOrder">>
            /\ raised' = "AssertionError"
            /\ UNCHANGED <<object, pc, locals>>
       ELSE IF kpcount = NotComputed
            THEN Enter("igraphKthOrder", k, delta)
            ELSE /\ call' = <<"igraphKthOrder">>
                 /\ raised' = None
                 /\ gn' = BuildGraph(kpaths, k)
                 /\ UNCHANGED <<tn, k, delta, kpaths, kpcount, gk, gn0, pc, locals>>

\* igraphKthOrder using the extracted paths without the count being set
ReturnIgraphKthOrderNoCount ==
    /\ Returning
    /\ Head(call) = "igraphKthOrder"
    /\ kpaths' = kpathsLocal
    /\ kpcount' = kpcount
    /\ gn' = BuildGraph(kpathsLocal, k)
    /\ pc' = "idle"
    /\ DropLocals
    /\ UNCHANGED <<tn, k, delta, gk, gn0, call, raised>>

\* extractKPaths returns inside igraphKthOrder, which then builds the graph
ReturnIgraphKthOrder ==
    /\ Returning
    /\ Head(call) = "igraphKthOrder"
    /\ kpaths' = kpathsLocal
    /\ kpcount' = Len(kpathsLocal)
    /\ gn' = BuildGraph(kpathsLocal, k)
    /\ pc' = "idle"
    /\ DropLocals
    /\ UNCHANGED <<tn, k, delta, gk, gn0, call, raised>>

\* the window of the null model: len(self.tn.ordered_times)
NullWindow(tmpNet) == Len(ordered_times(tmpNet))

igraphKthOrderNull ==
    /\ pc = "idle"
    /\ IF ~(k > 1)
       THEN /\ call' = <<"igraphKthOrderNull">>
            /\ raised' = "AssertionError"
            /\ UNCHANGED <<object, pc, locals>>
       ELSE Enter("igraphKthOrderNull", k, NullWindow(tn))

\* igraphKthOrderNull keeping its paths in self.kpaths
ReturnIgraphKthOrderNullCaching ==
    /\ Returning
    /\ Head(call) = "igraphKthOrderNull"
    /\ kpaths' = kpathsLocal
    /\ kpcount' = Len(kpathsLocal)
    /\ gn0' = BuildGraph(kpathsLocal, k)
    /\ pc' = "idle"
    /\ DropLocals
    /\ UNCHANGED <<tn, k, delta, gk, gn, call, raised>>

ReturnIgraphKthOrderNull ==
    /\ Returning
    /\ Head(call) = "igraphKthOrderNull"
    /\ gn0' = BuildGraph(kpathsLocal, k)
    /\ pc' = "idle"
    /\ DropLocals
    /\ UNCHANGED <<tn, k, delta, kpaths, kpcount, gk, gn, call, raised>>

\* ---------------------------------------------------------- specifications

\* the arguments tried for order and k, and for maxTimeDiff and delta
OrderArgs == 0 .. MaxOrder
DeltaArgs == 0 .. MaxDelta

\* the steps of __extract_k_paths
Walk ==
    \/ SkipTimestamp
    \/ OpenWindow
    \/ \E n \in AllNodes : VisitNode(n)
    \/ NextStep

NextExtract ==
    \/ \E o \in OrderArgs, d \in DeltaArgs : Construct(o, d)
    \/ KPathCount
    \/ extractKPaths
    \/ igraphKthOrder
    \/ igraphKthOrderNull
    \/ Walk
    \/ ReturnExtractKPaths
    \/ ReturnIgraphKthOrder
    \/ ReturnIgraphKthOrderNull

Next ==
    \/ NextExtract
    \/ clearCache
    \/ \E d \in DeltaArgs : setMaxTimeDiff(d)
    \/ resetMaxTimeDiff
    \/ \E o \in OrderArgs : setOrder(o)
    \/ resetOrder

NextDeep ==
    \/ Construct(MaxOrder, MaxDelta)
    \/ extractKPaths
    \/ Walk
    \/ ReturnExtractKPaths

\* the facade on the example streams and on the short generated streams
Spec == InitWith(Examples \cup StreamsUpTo(FacadeEdges)) /\ [][Next]_vars

\* extraction and graph building for a constructed (order, delta), on the
\* example streams and on every generated stream
SpecExtract == InitWith(Examples \cup Streams) /\ [][NextExtract]_vars

\* repeated extraction of the longest order and delta on the longer streams
SpecDeep == InitWith(DeepStreams) /\ [][NextDeep]_vars

\* extraction and graph building on streams that start before time 0
SpecAnchor == InitWith(EarlyStreams) /\ [][NextExtract]_vars

\* ------------------------------------------------------------------ claims

\* the cache of k-paths
cache == <<kpaths, kpcount>>

\* C1: with the cache populated, setOrder(o) and setMaxTimeDiff(d) with a
\* valid value other than the current one set the parameter and leave
\* kpcount at -1 and kpaths empty; with the current value they change none
\* of k, delta, kpaths and kpcount.
C1_SetterInvalidatesCache ==
    [][ /\ \A o \in 1 .. MaxOrder :
             (pc = "idle" /\ kpcount # NotComputed /\ call' = <<"setOrder", o>>)
             => IF o # k
                THEN k' = o /\ delta' = delta /\ kpcount' = NotComputed /\ kpaths' = <<>>
                ELSE UNCHANGED <<k, delta, kpaths, kpcount>>
        /\ \A d \in 1 .. MaxDelta :
             (pc = "idle" /\ kpcount # NotComputed /\ call' = <<"setMaxTimeDiff", d>>)
             => IF d # delta
                THEN delta' = d /\ k' = k /\ kpcount' = NotComputed /\ kpaths' = <<>>
                ELSE UNCHANGED <<k, delta, kpaths, kpcount>>
      ]_vars

\* C1 witness: setMaxTimeDiff was called with the current delta on a cache
\* holding paths, which are still there
C1_Witness ==
    /\ pc = "idle" /\ raised = None
    /\ Head(call) = "setMaxTimeDiff" /\ call[2] = delta
    /\ kpcount > 0 /\ Len(kpaths) = kpcount

\* C2: the constructor and the setters raise ValueError on order < 1 or
\* delta < 1, a rejected call changes none of k, delta, kpaths and kpcount,
\* and k >= 1 and delta >= 1 in every state of a constructed object.
C2_ValidationKeepsParametersPositive ==
    [][ /\ (pc' # "new") => (k' >= 1 /\ delta' >= 1)
        /\ (Head(call') = "__init__" /\ (call'[2] < 1 \/ call'[3] < 1))
             => (raised' = "ValueError" /\ pc' = "new")
        /\ (Head(call') \in {"setOrder", "setMaxTimeDiff"} /\ call'[2] < 1)
             => raised' = "ValueError"
        /\ (raised' = "ValueError") => UNCHANGED <<k, delta, kpaths, kpcount>>
      ]_vars

\* C2 witness: setOrder(0) was rejected on a populated cache
C2_Witness ==
    /\ pc = "idle" /\ call = <<"setOrder", 0>> /\ raised = "ValueError"
    /\ k >= 1 /\ kpcount > 0

\* the accessors C3 names
Accessors == {"KPathCount", "igraphKthOrder", "igraphKthOrderNull"}

\* C3 as stated: when KPathCount, igraphKthOrder or igraphKthOrderNull has
\* returned, the cache is populated: kpcount is not -1 and counts kpaths.
C3_AnyAccessorPopulatesCache ==
    (pc = "idle" /\ raised = None /\ Head(call) \in Accessors)
    => (kpcount # NotComputed /\ kpcount = Len(kpaths))

\* C3 amended: when igraphKthOrder has returned, the cache is populated
\* (kpcount is not -1 and counts kpaths); KPathCount and igraphKthOrderNull
\* leave kpaths and kpcount as they found them.
C3_OnlyIgraphKthOrderPopulatesCache ==
    [][ /\ (pc' = "idle" /\ raised' = None /\ Head(call') = "igraphKthOrder")
             => (kpcount' # NotComputed /\ kpcount' = Len(kpaths'))
        /\ (Head(call') \in {"KPathCount", "igraphKthOrderNull"})
             => UNCHANGED cache
      ]_vars

\* C3 witness: igraphKthOrder found the cache empty and its extraction is
\* about to return paths
C3_Witness ==
    /\ Returning /\ Head(call) = "igraphKthOrder"
    /\ kpcount = NotComputed /\ Len(kpathsLocal) > 0

\* the edge (u, v) is active at ts
EdgeAt(u, v, ts) == \E i \in 1 .. Len(tn) : tn[i] = <<u, v, ts>>

\* nodes is a time-respecting path of the stream for the window d: its edges
\* are active at timestamps that never decrease and never gap by more than d
TimeRespecting(nodes, d) ==
    \E at \in [1 .. Len(nodes) - 1 -> 1 .. MaxTime] :
        /\ \A i \in 1 .. Len(nodes) - 1 : EdgeAt(nodes[i], nodes[i + 1], at[i])
        /\ \A i \in 1 .. Len(nodes) - 2 : at[i] <= at[i + 1] /\ at[i + 1] - at[i] <= d

\* C4 as stated: every k-path the extraction has emitted for the window dt is
\* a time-respecting path of the stream for dt.
C4_EmittedPathsAreTimeRespecting ==
    \A i \in 1 .. Len(kpathsLocal) : TimeRespecting(kpathsLocal[i].nodes, dt)

\* the ordered (head key, tail key) pairs a graph has an edge for
EdgePairs(g) == { <<g.es[i].source, g.es[i].target>> : i \in 1 .. Len(g.es) }

\* C5 as stated: for the same network, order and delta, every edge of the
\* graph igraphKthOrder built is an edge of the graph igraphKthOrderNull built.
C5_NullGraphHasEveryEdge ==
    (gn.built /\ gn0.built) => EdgePairs(gn) \subseteq EdgePairs(gn0)

\* C5 on its fixture alone: there the null-model graph has both edges
C5_FixtureHolds ==
    (tn = Fixture /\ k = 2 /\ delta = 1 /\ gn.built /\ gn0.built)
    => EdgePairs(gn) \subseteq EdgePairs(gn0)

\* C6 as stated: the window igraphKthOrderNull extracts with is at least the
\* last timestamp minus the first.
C6_NullWindowSpansObservation ==
    (pc \in {"times", "nodes"} /\ Head(call) = "igraphKthOrderNull" /\ tn # <<>>)
    => dt >= Last(ordered_times(tn)) - Head(ordered_times(tn))

\* the sum of the weights of a list of weighted paths
RECURSIVE SumWeights(_)
SumWeights(paths) ==
    IF paths = <<>> THEN Zero ELSE RatAdd(Head(paths).weight, SumWeights(Tail(paths)))

\* the prefixes of length order that end at the node visited last
LivePrefixes ==
    { j \in 1 .. Len(possible_path[node]) : Len(possible_path[node][j]) = order }

\* the edges that leave the node visited last in the window of its step, and
\* the self loops among them
StepEdges ==
    { i \in 1 .. Len(tn) : /\ tn[i][1] = node
                           /\ tn[i][3] >= t + current_k
                           /\ tn[i][3] < t + current_k + dt }
StepLoops == { i \in StepEdges : tn[i][2] = node }

\* a node has just been visited in the final step of a window, with E >= 1
\* edges leaving it in the step window and M >= 1 prefixes of length order
FinalVisit ==
    /\ pc = "nodes" /\ node # None
    /\ current_k + 1 = order
    /\ Cardinality(StepEdges) >= 1
    /\ Cardinality(LivePrefixes) >= 1

Aggregate(paths) ==
    { [nodes  |-> paths[i].nodes,
       weight |-> SumWeights(SelectSeq(paths, LAMBDA q : q.nodes = paths[i].nodes))] :
      i \in 1 .. Len(paths) }

\* C8 as stated: an extraction that follows one for the same network, order
\* and delta yields the same aggregate weight for every node sequence.
C8_RepeatedExtractionAgrees ==
    [][ (Returning /\ Head(call) = "extractKPaths" /\ kpcount # NotComputed
           /\ pc' = "idle")
        => Aggregate(kpaths') = Aggregate(kpaths)
      ]_vars

\* join(n0 .. n_{order-1}) and join(n1 .. n_order) of a path
ExpectedHead(path) == Join(SubSeq(path.nodes, 1, k))
ExpectedTail(path) == Join(SubSeq(path.nodes, 2, k + 1))

\* igraphKthOrder has returned the graph gn of the cached paths
GraphOfCache == pc = "idle" /\ raised = None /\ Head(call) = "igraphKthOrder"

FixturePaths ==
    { [nodes |-> <<"a", "b", "c">>, weight |-> One],
      [nodes |-> <<"b", "c", "d">>, weight |-> One] }

\* C9: the graph igraphKthOrder builds from the cached paths has each head
\* and tail key of a path as a vertex exactly once and no other vertex, one
\* edge per distinct (head, tail) pair and no other edge, each weighted with
\* the sum of the weights of the paths of that pair; the fixture paths give
\* vertices "a,b", "b,c", "c,d" and the edges "a,b"->"b,c" and "b,c"->"c,d"
\* of weight 1.
C9_GraphAggregatesPaths ==
    GraphOfCache =>
        /\ \A i, j \in 1 .. Len(gn.vs) : gn.vs[i] = gn.vs[j] => i = j
        /\ { gn.vs[i] : i \in 1 .. Len(gn.vs) }
             = UNION { {ExpectedHead(kpaths[i]), ExpectedTail(kpaths[i])} :
                       i \in 1 .. Len(kpaths) }
        /\ \A i, j \in 1 .. Len(gn.es) :
             (gn.es[i].source = gn.es[j].source /\ gn.es[i].target = gn.es[j].target)
             => i = j
        /\ EdgePairs(gn)
             = { <<ExpectedHead(kpaths[i]), ExpectedTail(kpaths[i])>> :
                 i \in 1 .. Len(kpaths) }
        /\ \A i \in 1 .. Len(gn.es) :
             gn.es[i].weight
               = SumWeights(SelectSeq(kpaths,
                     LAMBDA q : /\ ExpectedHead(q) = gn.es[i].source
                                /\ ExpectedTail(q) = gn.es[i].target))
        /\ ({ kpaths[i] : i \in 1 .. Len(kpaths) } = FixturePaths /\ Len(kpaths) = 2)
             => /\ { gn.vs[i] : i \in 1 .. Len(gn.vs) } = {"a,b", "b,c", "c,d"}
                /\ { gn.es[i] : i \in 1 .. Len(gn.es) }
                     = { [source |-> "a,b", target |-> "b,c", weight |-> One],
                         [source |-> "b,c", target |-> "c,d", weight |-> One] }

\* C9 witness: a graph in which paths of different anchor windows were
\* folded into one edge
C9_Witness ==
    /\ GraphOfCache
    /\ \E i, j \in 1 .. Len(kpaths) : i # j /\ kpaths[i].nodes = kpaths[j].nodes
    /\ Len(gn.es) < Len(kpaths)

\* no two consecutive nodes are equal
NoRepeat(nodes) == \A i \in 1 .. Len(nodes) - 1 : nodes[i] # nodes[i + 1]

\* C10: every k-path the extraction has emitted has order + 1 nodes, no two
\* consecutive ones equal.
C10_PathsHaveOrderPlusOneNodes ==
    \A i \in 1 .. Len(kpathsLocal) :
        Len(kpathsLocal[i].nodes) = order + 1 /\ NoRepeat(kpathsLocal[i].nodes)

\* C10 witness: paths of order 3 were emitted from a stream with a self-loop
\* edge inside the window
C10_Witness ==
    /\ order = 3 /\ kpathsLocal # <<>>
    /\ \E i \in 1 .. Len(tn) : tn[i][1] = tn[i][2] /\ tn[i][3] >= t /\ tn[i][3] < t + dt

\* the timestamps __extract_k_paths has visited so far in this run
Visited ==
    SubSeq(ordered_times(tn), 1, IF pc = "nodes" THEN ti ELSE ti - 1)

\* the anchors among the timestamps ts for the window d: the first one, and
\* every later one that is at least d after the anchor before it
RECURSIVE AnchorsOf(_, _, _)
AnchorsOf(ts, d, found) ==
    IF ts = <<>> THEN found
    ELSE AnchorsOf(Tail(ts), d,
                   IF found = <<>> \/ Head(ts) >= Last(found) + d
                   THEN Append(found, Head(ts)) ELSE found)

\* C11: walking the timestamps in increasing order, the first timestamp is
\* processed as an anchor, and a later timestamp t is processed as an anchor
\* exactly when t >= a + dt for the anchor a processed last; every other
\* timestamp is skipped.
C11_AnchorsStartAtFirstTimestamp ==
    pc \in {"times", "nodes"} => anchors = AnchorsOf(Visited, dt, <<>>)

\* the same discipline on the streams that have no timestamp before 0
C11_HoldsFromTimeZero ==
    (\A i \in 1 .. Len(tn) : tn[i][3] >= 0) => C11_AnchorsStartAtFirstTimestamp

\* a run that has skipped a timestamp and processed two anchors
C11_TwoAnchors ==
    pc = "times" /\ Len(anchors) = 2 /\ Len(Visited) = 3

\* the lists one anchor window can add to st.out from step ck on, one for
\* every order in which `for node in candidate_nodes` can visit st.todo
RECURSIVE VisitAll(_, _, _, _, _, _)
VisitAll(tmpNet, ts, ord, d, ck, st) ==
    IF st.todo = {}
    THEN IF ck + 1 < ord
         THEN VisitAll(tmpNet, ts, ord, d, ck + 1,
                       [pp |-> st.pp, todo |-> st.newc, newc |-> {}, out |-> st.out])
         ELSE {st.out}
    ELSE UNION { LET new_edges == NewEdges(tmpNet, ts, ck, d, n)
                     r == ExtendEdges([pp |-> st.pp, newc |-> st.newc, update |-> <<>>],
                                      new_edges, Len(new_edges), ck, ord)
                 IN  VisitAll(tmpNet, ts, ord, d, ck,
                              [pp |-> r.pp, todo |-> st.todo \ {n}, newc |-> r.newc,
                               out |-> st.out \o r.update])
                 : n \in st.todo }

\* the lists the window anchored at ts can add
WindowPaths(tmpNet, ts, ord, d) ==
    LET seed == SeedPaths([pp |-> NoPaths, cand |-> {}], CurrentEdges(tmpNet, ts, d))
    IN  IF 1 < ord
        THEN VisitAll(tmpNet, ts, ord, d, 1,
                      [pp |-> seed.pp, todo |-> seed.cand, newc |-> {}, out |-> <<>>])
        ELSE { <<>> }

\* the timestamp loop from index i on, with the cursor and the lists so far
RECURSIVE ExtractFrom(_, _, _, _, _, _)
ExtractFrom(tmpNet, ord, d, i, cursor, outs) ==
    IF i > Len(ordered_times(tmpNet)) THEN outs
    ELSE LET ts == ordered_times(tmpNet)[i]
         IN  IF ts < cursor
             THEN ExtractFrom(tmpNet, ord, d, i + 1, cursor, outs)
             ELSE ExtractFrom(tmpNet, ord, d, i + 1, ts + d,
                              { l \o w : l \in outs, w \in WindowPaths(tmpNet, ts, ord, d) })

\* every list __extract_k_paths(tmpNet, ord, d) can return
extract_k_paths(tmpNet, ord, d) == ExtractFrom(tmpNet, ord, d, 1, 0, { <<>> })

\* C12: after any sequence of calls on a constructed object, either kpcount
\* is -1 and kpaths is empty, or kpcount is the length of kpaths and kpaths
\* is a list the extraction returns for the current k and the current delta.
C12_CacheIsCoherent ==
    pc = "idle" =>
        \/ kpcount = NotComputed /\ kpaths = <<>>
        \/ kpcount = Len(kpaths) /\ kpaths \in extract_k_paths(tn, k, delta)

\* the null model has been built beside a populated cache for another order,
\* and its graph is not the graph of the cached paths
C12_Witness ==
    /\ pc = "idle" /\ Head(call) = "igraphKthOrderNull" /\ raised = None
    /\ kpcount > 0 /\ k = MaxOrder /\ delta > DefaultMaxTimeDiff
    /\ gn0 # BuildGraph(kpaths, k)
    /\ gn.built /\ gn # BuildGraph(kpaths, k)

====
